---- MODULE Spec2Model ----
(***************************************************************************)
(* A model of the djacarta terminal editor: the base variant               *)
(* (src/djacarta.py) and the extended variant (src/etc/djacarta.py).       *)
(* A line is a sequence of one-character strings; the document (buffer)    *)
(* is a sequence of lines.  Indexing and slicing follow Python: negative   *)
(* indices count from the end, slices clamp, an index out of range raises  *)
(* IndexError, and an exception nobody catches ends the program.           *)
(***************************************************************************)
EXTENDS Integers, Sequences, FiniteSets, TLC

VARIABLES
    variant,    \* "base" (src/djacarta.py) or "ext" (src/etc/djacarta.py)
    status,     \* "running", "quit" (mainloop returned 1) or "crashed" (uncaught exception)
    key,        \* s.key, the keycode last pressed
    buffer,     \* s.buffer, the opened file as a list of lines
    cmdbuffer,  \* s.cmdbuffer
    cmdmode,    \* s.cmdmode
    navmode,    \* s.navmode (base variant)
    bufcur_x,   \* s.bufcur_x, cursor column in literal chars
    bufcur_y,   \* s.bufcur_y, cursor row
    bufofs_x,   \* s.bufofs_x, viewport column in visual chars
    bufofs_y,   \* s.bufofs_y, viewport row
    tabsz,      \* s.tabsz
    win_w,      \* s.win_w
    win_h,      \* s.win_h
    text,       \* the line handed to the coordinate mapper (mapper specification)
    calls,      \* the mapper calls made so far, as records [fn, offs, ret]
    trail       \* cursor positions before each arrow key (vertical-move specification)

vars == <<variant, status, key, buffer, cmdbuffer, cmdmode, navmode, bufcur_x,
          bufcur_y, bufofs_x, bufofs_y, tabsz, win_w, win_h, text, calls, trail>>

edvars == <<variant, status, key, buffer, cmdbuffer, cmdmode, navmode, bufcur_x,
            bufcur_y, bufofs_x, bufofs_y, win_w, win_h>>

-----------------------------------------------------------------------------
(* Bounds of the model. *)

\* longest line handed to the coordinate mapper
MaxText == 4
\* how far past the end of the line an offset handed to the mapper may lie
MaxOver == 2
\* largest tab size tried by the mapper and vertical-move specifications
MaxTab == 3

-----------------------------------------------------------------------------
(* Characters and Python's sequence operations. *)

TAB == "\t"
SPC == " "

Max(a, b) == IF a > b THEN a ELSE b
Min(a, b) == IF a < b THEN a ELSE b

\* seq[i] is defined for -len <= i < len, and raises IndexError otherwise
PyInRange(seq, i) == -Len(seq) <= i /\ i < Len(seq)

\* the 1-based position Python's index i denotes
PyPos(seq, i) == IF i < 0 THEN Len(seq) + i + 1 ELSE i + 1

PyGet(seq, i) == seq[PyPos(seq, i)]

PySet(seq, i, v) == [seq EXCEPT ![PyPos(seq, i)] = v]

\* a slice bound: negative bounds count from the end, and both clamp to 0..len
PyClamp(n, i) == IF i < 0 THEN Max(0, n + i) ELSE Min(n, i)

\* seq[a:b]
PySlice(seq, a, b) ==
    LET lo == PyClamp(Len(seq), a)
        hi == PyClamp(Len(seq), b)
    IN  IF lo >= hi THEN <<>> ELSE SubSeq(seq, lo + 1, hi)

\* seq[a:]
PyFrom(seq, a) == PySlice(seq, a, Len(seq))

\* seq[:b]
PyUpTo(seq, b) == PySlice(seq, 0, b)

\* seq.insert(i, v)
PyInsert(seq, i, v) ==
    LET p == PyClamp(Len(seq), i)
    IN  SubSeq(seq, 1, p) \o <<v>> \o SubSeq(seq, p + 1, Len(seq))

\* del seq[i]
PyDel(seq, i) ==
    LET p == PyPos(seq, i)
    IN  SubSeq(seq, 1, p - 1) \o SubSeq(seq, p + 1, Len(seq))

\* ' ' * n
Spaces(n) == [j \in 1..n |-> SPC]

-----------------------------------------------------------------------------
(* The coordinate mapper (the same code in both variants). *)

RECURSIVE b2vTabstopLoop(_, _, _, _, _)
\* a variant of the loop in which a tab advances to the next multiple of tsz
b2vTabstopLoop(txt, tsz, offs, i, ret) ==
    IF i < offs
    THEN b2vTabstopLoop(txt, tsz, offs, i + 1,
                        IF PyGet(txt, i) = TAB THEN ret + tsz - (ret % tsz) ELSE ret + 1)
    ELSE ret

\* bufpos2vispos with tab stops instead of fixed-width tabs
bufpos2vispos_tabstop(txt, tsz, offs) ==
    IF offs > Len(txt) THEN Len(txt) ELSE b2vTabstopLoop(txt, tsz, offs, 0, 0)

RECURSIVE b2vLoop(_, _, _, _, _)
\* the while loop of bufpos2vispos, from i with ret accumulated so far
b2vLoop(txt, tsz, offs, i, ret) ==
    IF i < offs
    THEN b2vLoop(txt, tsz, offs, i + 1,
                 IF PyGet(txt, i) = TAB THEN ret + tsz ELSE ret + 1)
    ELSE ret

bufpos2vispos(txt, tsz, offs) ==
    IF offs > Len(txt) THEN Len(txt) ELSE b2vLoop(txt, tsz, offs, 0, 0)

RECURSIVE v2bLoop(_, _, _, _, _)
\* the while loop of vispos2bufpos, from i with ret accumulated so far
v2bLoop(txt, tsz, offs, i, ret) ==
    IF i < offs
    THEN v2bLoop(txt, tsz, offs, i + 1,
                 IF i + tsz < Len(txt) THEN ret
                 ELSE IF PySlice(txt, i, i + tsz) = Spaces(tsz) THEN ret + tsz - 1
                 ELSE ret + 1)
    ELSE ret

vispos2bufpos(txt, tsz, offs) ==
    IF offs > Len(txt) THEN Len(txt) ELSE v2bLoop(txt, tsz, offs, 0, 0)

\* the visual column of literal offset o of line L: one column per non-tab
\* character before o and t columns per tab before o
VisCol(L, t, o) ==
    Cardinality({i \in 1..o : L[i] # TAB}) + t * Cardinality({i \in 1..o : L[i] = TAB})

-----------------------------------------------------------------------------
(* The editor state after State.__init__ and the first render. *)

\* the terminal sizes tried: getmaxyx() as stored by store_winsz
WinHeights == {2, 3}
WinWidths == {2}

\* the tab size State.__init__ sets
InitTabsz(v) == IF v = "base" THEN 1 ELSE 3

StateInit(v) ==
    /\ variant = v
    /\ status = "running"
    /\ key = 0
    /\ buffer = << <<>> >>
    /\ cmdbuffer = <<>>
    /\ cmdmode = FALSE
    /\ navmode = FALSE
    /\ bufcur_x = 0
    /\ bufcur_y = 0
    /\ bufofs_x = 0
    /\ bufofs_y = 0
    /\ win_w \in WinWidths
    /\ win_h \in WinHeights

-----------------------------------------------------------------------------
(* Key codes and characters. *)

KEY_TAB == 9
KEY_ENTER == 10
KEY_ESC == 27
KEY_BACKSPACE == 127
KEY_DEL == 330
KEY_DOWN == 258
KEY_UP == 259
KEY_LEFT == 260
KEY_RIGHT == 261

\* the key codes that are code points of the characters this model types
CodePoints == {9, 32, 45, 48, 49, 50, 52, 54, 65, 97, 98, 100, 101, 103, 104,
               110, 112, 115, 116, 117, 122}

\* chr(k), on the code points above
Chr(k) ==
    CASE k = 9 -> TAB  [] k = 32 -> SPC [] k = 45 -> "-" [] k = 48 -> "0"
      [] k = 49 -> "1" [] k = 50 -> "2" [] k = 52 -> "4" [] k = 54 -> "6"
      [] k = 65 -> "A" [] k = 97 -> "a" [] k = 98 -> "b" [] k = 100 -> "d"
      [] k = 101 -> "e" [] k = 103 -> "g" [] k = 104 -> "h" [] k = 110 -> "n"
      [] k = 112 -> "p" [] k = 115 -> "s" [] k = 116 -> "t" [] k = 117 -> "u"
      [] k = 122 -> "z"

\* the code point of a character of this model (ord), the inverse of Chr
Ord(c) == CHOOSE k \in CodePoints : Chr(k) = c

-----------------------------------------------------------------------------
(* The editor state as a record, so that a handler is an operator from     *)
(* state to state.  exc marks an exception raised and not caught; ret is   *)
(* the value mainloop returns.                                             *)

Cur ==
    [key |-> key, buffer |-> buffer, cmdbuffer |-> cmdbuffer, cmdmode |-> cmdmode,
     navmode |-> navmode, bufcur_x |-> bufcur_x, bufcur_y |-> bufcur_y,
     bufofs_x |-> bufofs_x, bufofs_y |-> bufofs_y, tabsz |-> tabsz,
     exc |-> FALSE, ret |-> 0]

Raise(s) == [s EXCEPT !.exc = TRUE]

\* the fixed margin of ins_chr
TypeMargin == 79

\* chr(k) raises ValueError outside range(0x110000)
ChrRaises(k) == k < 0 \/ k > 1114111

\* ins_chr that always adds the character at the end of the line
ins_chr_append(s) ==
    IF ~PyInRange(s.buffer, s.bufcur_y) \/ ChrRaises(s.key) THEN Raise(s)
    ELSE
        LET line == PyGet(s.buffer, s.bufcur_y)
            nx == s.bufcur_x + 1
        IN  [s EXCEPT !.buffer = PySet(s.buffer, s.bufcur_y, Append(line, Chr(s.key))),
                      !.bufcur_x = nx,
                      !.bufofs_x = IF nx - s.bufofs_x > TypeMargin THEN @ + 1 ELSE @]

\* ins_chr(s): insert chr(s.key) at the cursor
ins_chr(s) ==
    IF ~PyInRange(s.buffer, s.bufcur_y) \/ ChrRaises(s.key) THEN Raise(s)
    ELSE
        LET line == PyGet(s.buffer, s.bufcur_y)
            ch == Chr(s.key)
            newline == IF s.bufcur_x = Len(line)
                       THEN Append(line, ch)
                       ELSE PyUpTo(line, s.bufcur_x) \o <<ch>> \o PyFrom(line, s.bufcur_x)
            nx == s.bufcur_x + 1
        IN  [s EXCEPT !.buffer = PySet(s.buffer, s.bufcur_y, newline),
                      !.bufcur_x = nx,
                      !.bufofs_x = IF nx - s.bufofs_x > TypeMargin THEN @ + 1 ELSE @]

\* move_cursor of the extended variant with the viewport row put on the
\* cursor row whenever the cursor leaves the window
ext_move_cursor_jump(s, wh) ==
    IF ~PyInRange(s.buffer, s.bufcur_y) THEN Raise(s)
    ELSE
        LET line == PyGet(s.buffer, s.bufcur_y)
            oldvis == bufpos2vispos(line, s.tabsz, s.bufcur_x)
        IN  CASE wh = "d" ->
                  LET moved == ~(s.bufcur_y + 1 >= Len(s.buffer))
                      ny == IF moved THEN s.bufcur_y + 1 ELSE s.bufcur_y
                      nx == IF moved
                            THEN vispos2bufpos(PyGet(s.buffer, ny), s.tabsz, oldvis)
                            ELSE s.bufcur_x
                  IN  [s EXCEPT !.bufcur_y = ny, !.bufcur_x = nx,
                                !.bufofs_y = IF ny >= s.bufofs_y + win_h - 1
                                             THEN ny ELSE @]
              [] wh = "u" ->
                  LET moved == ~(s.bufcur_y <= 0)
                      ny == IF moved THEN s.bufcur_y - 1 ELSE s.bufcur_y
                      nx == IF moved
                            THEN vispos2bufpos(PyGet(s.buffer, ny), s.tabsz, oldvis)
                            ELSE s.bufcur_x
                  IN  [s EXCEPT !.bufcur_y = ny, !.bufcur_x = nx,
                                !.bufofs_y = IF ny < s.bufofs_y THEN ny ELSE @]
              [] OTHER -> s

\* move_cursor(s, wh) of the extended variant; wh is "l", "r", "u" or "d"
ext_move_cursor(s, wh) ==
    IF ~PyInRange(s.buffer, s.bufcur_y) THEN Raise(s)
    ELSE
        LET line == PyGet(s.buffer, s.bufcur_y)
            oldvis == bufpos2vispos(line, s.tabsz, s.bufcur_x)
        IN  CASE wh = "l" ->
                  LET nx == IF s.bufcur_x > 0 THEN s.bufcur_x - 1 ELSE s.bufcur_x
                      vis == bufpos2vispos(line, s.tabsz, nx)
                  IN  [s EXCEPT !.bufcur_x = nx,
                                !.bufofs_x = IF vis < s.bufofs_x THEN vis ELSE @]
              [] wh = "r" ->
                  LET nx == IF s.bufcur_x < Len(line) THEN s.bufcur_x + 1 ELSE s.bufcur_x
                      vis == bufpos2vispos(line, s.tabsz, nx)
                  IN  [s EXCEPT !.bufcur_x = nx,
                                !.bufofs_x = IF vis >= s.bufofs_x + win_w THEN vis ELSE @]
              [] wh = "d" ->
                  LET moved == ~(s.bufcur_y + 1 >= Len(s.buffer))
                      ny == IF moved THEN s.bufcur_y + 1 ELSE s.bufcur_y
                      nx == IF moved
                            THEN vispos2bufpos(PyGet(s.buffer, ny), s.tabsz, oldvis)
                            ELSE s.bufcur_x
                  IN  [s EXCEPT !.bufcur_y = ny, !.bufcur_x = nx,
                                !.bufofs_y = IF ny >= s.bufofs_y + win_h - 1
                                             THEN @ + 1 ELSE @]
              [] wh = "u" ->
                  LET moved == ~(s.bufcur_y <= 0)
                      ny == IF moved THEN s.bufcur_y - 1 ELSE s.bufcur_y
                      nx == IF moved
                            THEN vispos2bufpos(PyGet(s.buffer, ny), s.tabsz, oldvis)
                            ELSE s.bufcur_x
                  IN  [s EXCEPT !.bufcur_y = ny, !.bufcur_x = nx,
                                !.bufofs_y = IF ny < s.bufofs_y THEN @ - 1 ELSE @]

\* move_cursor(s, wh) of the base variant: the same moves, no scrolling
base_move_cursor(s, wh) ==
    IF ~PyInRange(s.buffer, s.bufcur_y) THEN Raise(s)
    ELSE
        LET line == PyGet(s.buffer, s.bufcur_y)
            oldvis == bufpos2vispos(line, s.tabsz, s.bufcur_x)
        IN  CASE wh = "l" ->
                  [s EXCEPT !.bufcur_x = IF @ > 0 THEN @ - 1 ELSE @]
              [] wh = "r" ->
                  [s EXCEPT !.bufcur_x = IF @ < Len(line) THEN @ + 1 ELSE @]
              [] wh = "d" ->
                  IF s.bufcur_y + 1 >= Len(s.buffer) THEN s
                  ELSE [s EXCEPT !.bufcur_y = @ + 1,
                                 !.bufcur_x = vispos2bufpos(PyGet(s.buffer, s.bufcur_y + 1),
                                                            s.tabsz, oldvis)]
              [] wh = "u" ->
                  IF s.bufcur_y <= 0 THEN s
                  ELSE [s EXCEPT !.bufcur_y = @ - 1,
                                 !.bufcur_x = vispos2bufpos(PyGet(s.buffer, s.bufcur_y - 1),
                                                            s.tabsz, oldvis)]

-----------------------------------------------------------------------------
(* int(text, base) on strings of digits, sign and spaces: the value, or    *)
(* ValueError (ok = FALSE).                                                *)

HexDigits == {"0", "1", "2", "4", "5", "6", "9", "a", "b", "d", "e", "A"}
DecDigits == {"0", "1", "2", "4", "5", "6", "9"}

DigitVal(c) ==
    CASE c = "0" -> 0 [] c = "1" -> 1 [] c = "2" -> 2 [] c = "4" -> 4 [] c = "5" -> 5
      [] c = "6" -> 6 [] c = "9" -> 9
      [] c = "a" -> 10 [] c = "A" -> 10 [] c = "b" -> 11 [] c = "d" -> 13 [] c = "e" -> 14

RECURSIVE StripLeft(_)
StripLeft(t) == IF t # <<>> /\ Head(t) = SPC THEN StripLeft(Tail(t)) ELSE t

RECURSIVE StripRight(_)
StripRight(t) ==
    IF t # <<>> /\ t[Len(t)] = SPC THEN StripRight(SubSeq(t, 1, Len(t) - 1)) ELSE t

RECURSIVE DigitsValue(_, _)
DigitsValue(ds, base) ==
    IF ds = <<>> THEN 0
    ELSE DigitsValue(SubSeq(ds, 1, Len(ds) - 1), base) * base + DigitVal(ds[Len(ds)])

\* int(t, base) for base 16, and for base 0 (decimal literals, where a
\* non-zero number may not start with 0)
ParseInt(t, base) ==
    LET u == StripRight(StripLeft(t))
        signed == u # <<>> /\ Head(u) \in {"-", "+"}
        ds == IF signed THEN Tail(u) ELSE u
        digits == IF base = 16 THEN HexDigits ELSE DecDigits
        radix == IF base = 16 THEN 16 ELSE 10
        wellformed == /\ ds # <<>>
                      /\ \A i \in 1..Len(ds) : ds[i] \in digits
        mag == DigitsValue(ds, radix)
        ok == /\ wellformed
              /\ (base = 0 /\ Head(ds) = "0") => mag = 0
    IN  [ok |-> ok, val |-> IF ~ok THEN 0 ELSE IF signed /\ Head(u) = "-" THEN -mag ELSE mag]

\* cmd.startswith(p)
StartsWith(cmd, p) == Len(cmd) >= Len(p) /\ SubSeq(cmd, 1, Len(p)) = p

-----------------------------------------------------------------------------
(* do_cmd of the extended variant.  The file commands (o, t, s, ss) read   *)
(* and write the file system and are not typed in this model.              *)

ext_do_cmd(s) ==
    LET cmd == s.cmdbuffer
        H == win_h - 1
        n == Len(s.buffer)
    IN  CASE StartsWith(cmd, <<"u", "-">>) ->
              LET cp == ParseInt(PyFrom(cmd, 2), 16)
              IN  IF ~cp.ok THEN Raise(s)
                  ELSE ins_chr([s EXCEPT !.key = cp.val])
          [] cmd = <<"h">> ->
              [s EXCEPT !.bufcur_x = 0, !.bufofs_x = 0]
          [] cmd = <<"e">> ->
              IF ~PyInRange(s.buffer, s.bufcur_y) THEN Raise(s)
              ELSE LET line == PyGet(s.buffer, s.bufcur_y)
                   IN  [s EXCEPT !.bufcur_x = Len(line),
                                 !.bufofs_x = bufpos2vispos(line, s.tabsz, Len(line))]
          [] cmd = <<"v", "a">> ->
              [s EXCEPT !.bufofs_y = s.bufcur_y]
          [] cmd = <<"h", "a">> ->
              IF ~PyInRange(s.buffer, s.bufcur_y) THEN Raise(s)
              ELSE [s EXCEPT !.bufofs_x = bufpos2vispos(PyGet(s.buffer, s.bufcur_y),
                                                        s.tabsz, s.bufcur_x)]
          [] cmd = <<"p", "u">> ->
              IF s.bufcur_y - H >= 0
              THEN [s EXCEPT !.bufofs_y = @ - H, !.bufcur_y = @ - H]
              ELSE [s EXCEPT !.bufofs_y = 0, !.bufcur_y = 0]
          [] cmd = <<"p", "d">> ->
              IF s.bufcur_y + H <= n
              THEN [s EXCEPT !.bufofs_y = @ + H, !.bufcur_y = @ + H]
              ELSE [s EXCEPT !.bufofs_y = n - 1, !.bufcur_y = n - 1]
          [] StartsWith(cmd, <<"g", SPC>>) ->
              LET num == ParseInt(PyFrom(cmd, 2), 0)
              IN  IF ~num.ok THEN Raise(s)
                  ELSE IF num.val < n
                       THEN [s EXCEPT !.bufcur_y = num.val, !.bufofs_y = num.val]
                       ELSE s
          [] StartsWith(cmd, <<"t", "a", "b", "s", "z", SPC>>) ->
              LET size == ParseInt(PyFrom(cmd, 6), 0)
              IN  IF ~size.ok THEN Raise(s)
                  ELSE IF size.val > 0 /\ size.val < 256
                       THEN [s EXCEPT !.tabsz = size.val]
                       ELSE s
          [] cmd = <<"c", "l", "s">> ->
              [s EXCEPT !.buffer = << <<>> >>, !.bufofs_x = 0, !.bufofs_y = 0,
                        !.bufcur_x = 0, !.bufcur_y = 0]
          [] cmd = <<"q">> ->
              [s EXCEPT !.ret = 1]
          [] OTHER -> s

-----------------------------------------------------------------------------
(* The key handlers of mainloop, outside command mode. *)

\* Return/Enter in the extended variant
ext_enter(s) ==
    LET y == s.bufcur_y
        x == s.bufcur_x
        moved(b) == [s EXCEPT !.buffer = b, !.bufcur_y = y + 1, !.bufcur_x = 0]
    IN  IF y < Len(s.buffer) - 1
        THEN IF ~PyInRange(s.buffer, y) THEN Raise(s)
             ELSE LET curline == PyGet(s.buffer, y)
                  IN  IF x < Len(curline)
                      THEN LET lhs == PyUpTo(s.buffer, y + 1)
                               rhs == PyFrom(s.buffer, y)
                           IN  IF lhs = <<>> \/ rhs = <<>> THEN Raise(s)
                               ELSE moved(PySet(lhs, -1, PyUpTo(curline, x))
                                          \o PySet(rhs, 0, PyFrom(curline, x)))
                      ELSE moved(PyInsert(s.buffer, y + 1, <<>>))
        ELSE moved(Append(s.buffer, <<>>))

\* Return/Enter in the base variant
base_enter(s) ==
    LET y == s.bufcur_y
        b == IF y < Len(s.buffer) - 1
             THEN PyUpTo(s.buffer, y + 1) \o << <<>> >> \o PyFrom(s.buffer, y + 1)
             ELSE Append(s.buffer, <<>>)
    IN  [s EXCEPT !.buffer = b, !.bufcur_y = y + 1, !.bufcur_x = 0]

\* the Del key joining without deleting the line it has appended
ext_del_keepnext(s) ==
    LET y == s.bufcur_y
        x == s.bufcur_x
        buflen == Len(s.buffer)
    IN  IF ~PyInRange(s.buffer, y) THEN Raise(s)
        ELSE LET line == PyGet(s.buffer, y)
                 linelen == Len(line)
             IN  IF s.buffer = << <<>> >> \/ (x >= linelen /\ y >= buflen - 1)
                 THEN s
                 ELSE IF x >= linelen /\ y + 1 < buflen
                 THEN [s EXCEPT !.buffer = PySet(s.buffer, y, line \o PyGet(s.buffer, y + 1))]
                 ELSE [s EXCEPT !.buffer =
                          PySet(s.buffer, y, PyUpTo(line, x) \o PyFrom(line, x + 1))]

\* the Del key of the extended variant
ext_del(s) ==
    LET y == s.bufcur_y
        x == s.bufcur_x
        buflen == Len(s.buffer)
    IN  IF ~PyInRange(s.buffer, y) THEN Raise(s)
        ELSE LET line == PyGet(s.buffer, y)
                 linelen == Len(line)
             IN  IF s.buffer = << <<>> >> \/ (x >= linelen /\ y >= buflen - 1)
                 THEN s
                 ELSE IF x >= linelen /\ y + 1 < buflen
                 THEN [s EXCEPT !.buffer =
                          PyDel(PySet(s.buffer, y, line \o PyGet(s.buffer, y + 1)), y + 1)]
                 ELSE [s EXCEPT !.buffer =
                          PySet(s.buffer, y, PyUpTo(line, x) \o PyFrom(line, x + 1))]

\* Backspace on an empty line, always dropping the last line of the document
bs_empty_line_droplast(s) ==
    LET y == s.bufcur_y
        b == PyUpTo(s.buffer, -1)
        t == [s EXCEPT !.buffer = b, !.bufcur_y = y - 1]
    IN  IF ~PyInRange(b, y - 1) THEN Raise(t)
        ELSE [t EXCEPT !.bufcur_x = Len(PyGet(b, y - 1))]

\* Backspace on an empty line that is not the only one (both variants):
\* the line is removed and the cursor goes to the end of the line before
bs_empty_line(s) ==
    LET y == s.bufcur_y
        b == IF y < Len(s.buffer) - 1
             THEN PyUpTo(s.buffer, y) \o PyFrom(s.buffer, y + 1)
             ELSE PyUpTo(s.buffer, -1)
        t == [s EXCEPT !.buffer = b, !.bufcur_y = y - 1]
    IN  IF ~PyInRange(b, y - 1) THEN Raise(t)
        ELSE [t EXCEPT !.bufcur_x = Len(PyGet(b, y - 1))]

\* Backspace inside a line that removes the character and leaves the cursor
\* column as it was
bs_char_keepcol(s) ==
    LET y == s.bufcur_y
        x == s.bufcur_x
        line == PyGet(s.buffer, y)
        newline == IF x < Len(line)
                   THEN PyUpTo(line, x - 1) \o PyFrom(line, x)
                   ELSE PyUpTo(line, -1)
    IN  [s EXCEPT !.buffer = PySet(s.buffer, y, newline)]

\* Backspace inside a line (both variants): the character before the cursor
\* goes, or the last one when the cursor is not inside the line
bs_char(s) ==
    LET y == s.bufcur_y
        x == s.bufcur_x
        line == PyGet(s.buffer, y)
        newline == IF x < Len(line)
                   THEN PyUpTo(line, x - 1) \o PyFrom(line, x)
                   ELSE PyUpTo(line, -1)
    IN  [s EXCEPT !.buffer = PySet(s.buffer, y, newline), !.bufcur_x = x - 1]

\* Backspace at column 0 of a non-empty line, extended variant
ext_bs_join(s) ==
    LET y == s.bufcur_y
    IN  IF ~PyInRange(s.buffer, y - 1) THEN Raise(s)
        ELSE LET newx == Len(PyGet(s.buffer, y - 1))
                 line == PyGet(s.buffer, y - 1) \o PyGet(s.buffer, y)
                 lhs0 == PyUpTo(s.buffer, y)
                 lhs == IF lhs0 = <<>> THEN <<line>> ELSE PySet(lhs0, -1, line)
                 rhs == PyFrom(s.buffer, y + 1)
             IN  [s EXCEPT !.buffer = lhs \o rhs, !.bufcur_y = y - 1, !.bufcur_x = newx]

\* Backspace at column 0 of a non-empty line, base variant
base_bs_join(s) ==
    LET y == s.bufcur_y
    IN  IF ~PyInRange(s.buffer, y - 1) THEN Raise(s)
        ELSE LET newx == Len(PyUpTo(s.buffer, y - 1))
                 line == PyGet(s.buffer, y - 1) \o PyGet(s.buffer, y)
                 lhs0 == PyUpTo(s.buffer, y - 1)
                 lhs == IF lhs0 = <<>> THEN <<line>> ELSE PySet(lhs0, -1, line)
                 rhs == PyFrom(s.buffer, y + 1)
             IN  [s EXCEPT !.buffer = lhs \o rhs, !.bufcur_y = y - 1, !.bufcur_x = newx]

\* Backspace outside command mode, extended variant
ext_backspace(s) ==
    IF s.buffer = << <<>> >> \/ (s.bufcur_x = 0 /\ s.bufcur_y = 0) THEN s
    ELSE IF ~PyInRange(s.buffer, s.bufcur_y) THEN Raise(s)
    ELSE IF PyGet(s.buffer, s.bufcur_y) = <<>> THEN bs_empty_line(s)
    ELSE IF s.bufcur_x = 0 THEN ext_bs_join(s)
    ELSE bs_char(s)

\* the base variant's Backspace without its first test, the one that leaves
\* a lone empty line and the cursor at the very start alone
base_backspace_noguard(s) ==
    IF ~PyInRange(s.buffer, s.bufcur_y) THEN Raise(s)
    ELSE IF PyGet(s.buffer, s.bufcur_y) = <<>> THEN bs_empty_line(s)
    ELSE IF s.bufcur_x = 0 THEN base_bs_join(s)
    ELSE bs_char(s)

\* Backspace outside command mode, base variant
base_backspace(s) ==
    IF s.buffer = << <<>> >> \/ (s.bufcur_x = 0 /\ s.bufcur_y = 0) THEN s
    ELSE IF ~PyInRange(s.buffer, s.bufcur_y) THEN Raise(s)
    ELSE IF PyGet(s.buffer, s.bufcur_y) = <<>> THEN bs_empty_line(s)
    ELSE IF s.bufcur_x = 0 THEN base_bs_join(s)
    ELSE bs_char(s)

-----------------------------------------------------------------------------
(* do_cmd of the base variant (file commands left out as above). *)

base_do_cmd(s) ==
    LET cmd == s.cmdbuffer
    IN  CASE StartsWith(cmd, <<"u", "-">>) ->
              LET cp == ParseInt(PyFrom(cmd, 2), 16)
              IN  IF ~cp.ok THEN Raise(s)
                  ELSE ins_chr([s EXCEPT !.key = cp.val])
          [] cmd = <<"n">> ->
              [s EXCEPT !.navmode = ~s.navmode]
          [] StartsWith(cmd, <<"t", "a", "b", "s", "z", SPC>>) ->
              LET size == ParseInt(PyFrom(cmd, 6), 0)
              IN  IF ~size.ok THEN Raise(s)
                  ELSE IF size.val > 0 /\ size.val < 256
                       THEN [s EXCEPT !.tabsz = size.val]
                       ELSE s
          [] cmd = <<"c", "l", "s">> ->
              [s EXCEPT !.buffer = << <<>> >>, !.bufofs_x = 0, !.bufofs_y = 0,
                        !.bufcur_x = 0, !.bufcur_y = 0]
          [] cmd = <<"q">> ->
              [s EXCEPT !.ret = 1]
          [] OTHER -> s

-----------------------------------------------------------------------------
(* mainloop: the dispatch on the key read by getch. *)

ArrowKeys == {KEY_UP, KEY_LEFT, KEY_DOWN, KEY_RIGHT}

Direction(k) ==
    CASE k = KEY_UP -> "u" [] k = KEY_LEFT -> "l" [] k = KEY_DOWN -> "d" [] k = KEY_RIGHT -> "r"

\* the Tab branch (both variants)
tab_key(s) ==
    IF s.cmdmode
    THEN LET t == ins_chr(s)
         IN  IF t.exc THEN t ELSE [t EXCEPT !.cmdmode = FALSE]
    ELSE [s EXCEPT !.cmdmode = TRUE]

\* the cancel key leaving command mode without clearing the command buffer
cancel_key_keepbuf(s) == [s EXCEPT !.cmdmode = FALSE]

\* the cancel key (Esc in the extended variant, Backspace in command mode in
\* the base variant): command mode is left and the command buffer emptied
cancel_key(s) == [s EXCEPT !.cmdmode = FALSE, !.cmdbuffer = <<>>]

\* the accept branch (Enter in command mode); r is the state do_cmd left
accept_key(r) ==
    IF r.exc THEN r ELSE [r EXCEPT !.cmdmode = FALSE, !.cmdbuffer = <<>>]

ext_mainloop(s0, k) ==
    LET s == [s0 EXCEPT !.key = k]
    IN  IF k = KEY_TAB THEN tab_key(s)
        ELSE IF k = KEY_ENTER
        THEN IF s.cmdmode THEN accept_key(ext_do_cmd(s)) ELSE ext_enter(s)
        ELSE IF k = KEY_ESC THEN cancel_key(s)
        ELSE IF k = KEY_DEL THEN ext_del(s)
        ELSE IF k = KEY_BACKSPACE
        THEN IF s.cmdmode THEN [s EXCEPT !.cmdbuffer = PyUpTo(@, -1)] ELSE ext_backspace(s)
        ELSE IF s.cmdmode THEN [s EXCEPT !.cmdbuffer = Append(@, Chr(k))]
        ELSE IF k \in ArrowKeys THEN ext_move_cursor(s, Direction(k))
        ELSE IF k < 256 THEN ins_chr(s)
        ELSE s

base_mainloop(s0, k) ==
    LET s == [s0 EXCEPT !.key = k]
    IN  IF k = KEY_TAB THEN tab_key(s)
        ELSE IF k = KEY_ENTER
        THEN IF s.cmdmode THEN accept_key(base_do_cmd(s))
             ELSE IF ~s.navmode THEN base_enter(s) ELSE s
        ELSE IF k = KEY_BACKSPACE
        THEN IF s.cmdmode THEN cancel_key(s)
             ELSE IF ~s.navmode THEN base_backspace(s) ELSE s
        ELSE IF s.cmdmode THEN [s EXCEPT !.cmdbuffer = Append(@, Chr(k))]
        ELSE IF k \in ArrowKeys THEN base_move_cursor(s, Direction(k))
        ELSE ins_chr(s)

mainloop(s, k) == IF variant = "ext" THEN ext_mainloop(s, k) ELSE base_mainloop(s, k)

\* render, run at the top of mainloop, reads s.buffer[s.bufcur_y - bufstart_y]
\* to place the terminal cursor: an IndexError when that is no index.  The
\* curses calls themselves are taken to succeed.
RenderRaises == ~cmdmode /\ ~PyInRange(buffer, bufcur_y - bufofs_y)

-----------------------------------------------------------------------------
(* Actions: one mainloop call per key. *)

\* bounds on the document
MaxLines == 3
MaxChars == 3

RECURSIVE TotalChars(_)
TotalChars(b) == IF b = <<>> THEN 0 ELSE Len(Head(b)) + TotalChars(Tail(b))

\* the commands typed in command mode: the command buffer stays a prefix of one
ExtCommands ==
    { <<"h">>, <<"e">>, <<"p", "u">>, <<"p", "d">>,
      <<"g", SPC, "1">>, <<"g", SPC, "-", "1">>, <<"g", SPC, "2">> }

BaseCommands == { <<"n">>, <<"t", "a", "b", "s", "z", SPC, "2">> }

Commands == IF variant = "ext" THEN ExtCommands ELSE BaseCommands

IsPrefix(p, w) == Len(p) <= Len(w) /\ SubSeq(w, 1, Len(p)) = p

\* the command buffer, where the key makes it longer, stays a prefix of a
\* command of the model
Bounded(s) ==
    Len(s.cmdbuffer) <= Len(cmdbuffer) \/ \E w \in Commands : IsPrefix(s.cmdbuffer, w)

\* one call of mainloop with getch returning k
PressCore(k) ==
    /\ status = "running"
    /\ ~RenderRaises
    /\ \E s \in {mainloop(Cur, k)} :
           /\ Bounded(s)
           /\ key' = s.key
           /\ buffer' = s.buffer
           /\ cmdbuffer' = s.cmdbuffer
           /\ cmdmode' = s.cmdmode
           /\ navmode' = s.navmode
           /\ bufcur_x' = s.bufcur_x
           /\ bufcur_y' = s.bufcur_y
           /\ bufofs_x' = s.bufofs_x
           /\ bufofs_y' = s.bufofs_y
           /\ tabsz' = s.tabsz
           /\ status' = IF s.exc THEN "crashed" ELSE IF s.ret = 1 THEN "quit" ELSE "running"
    /\ UNCHANGED <<variant, win_w, win_h, text, calls>>

Press(k) == PressCore(k) /\ UNCHANGED trail

KeyTab == Press(KEY_TAB)

KeyEnter == Press(KEY_ENTER)

KeyEsc == variant = "ext" /\ Press(KEY_ESC)

KeyDel == variant = "ext" /\ Press(KEY_DEL)

KeyBackspace == Press(KEY_BACKSPACE)

\* a character typed in command mode
KeyCmdChar(k) == cmdmode /\ Press(k)

\* an arrow key outside command mode
KeyArrow(k) == ~cmdmode /\ Press(k)

\* a character typed outside command mode
KeyChar(k) == ~cmdmode /\ Press(k)

\* render raises at the top of mainloop and the program ends
RenderFault ==
    /\ status = "running"
    /\ RenderRaises
    /\ status' = "crashed"
    /\ UNCHANGED <<variant, key, buffer, cmdbuffer, cmdmode, navmode, bufcur_x, bufcur_y,
                   bufofs_x, bufofs_y, tabsz, win_w, win_h, text, calls, trail>>

Chars == {"a", TAB, SPC}

\* all lines of at most n characters
LinesUpTo(n) == UNION {[1..k -> Chars] : k \in 0..n}

\* the document of the next state is within n lines and c characters
DocWithin(n, c) == Len(buffer') <= n /\ TotalChars(buffer') <= c

EditDoc == DocWithin(MaxLines, MaxChars)

-----------------------------------------------------------------------------
(* SpecExt: the extended variant from its initial state, under every key.  *)

\* bounds on the document under SpecExt and SpecExtType
ExtMaxLines == 2
ExtMaxChars == 2

CmdKeys == {Ord(c) : c \in UNION {{w[i] : i \in 1..Len(w)} : w \in ExtCommands \cup BaseCommands}}

NoMapper == text = <<>> /\ calls = <<>> /\ trail = <<>>

InitExt ==
    /\ StateInit("ext")
    /\ tabsz = InitTabsz("ext")
    /\ NoMapper

ExtDoc == DocWithin(ExtMaxLines, ExtMaxChars)

NextExt ==
    \/ KeyTab /\ ExtDoc
    \/ KeyEnter /\ ExtDoc
    \/ KeyEsc
    \/ KeyDel /\ ExtDoc
    \/ KeyBackspace /\ ExtDoc
    \/ \E k \in CmdKeys : KeyCmdChar(k)
    \/ \E k \in ArrowKeys : KeyArrow(k)
    \/ KeyChar(97) /\ ExtDoc
    \/ RenderFault

SpecExt == InitExt /\ [][NextExt]_vars

-----------------------------------------------------------------------------
(* SpecExtType: the extended variant from its initial state, under the     *)
(* typing-mode keys only (characters, Enter, Backspace, Del, arrows).      *)

NextExtType ==
    \/ KeyEnter /\ EditDoc
    \/ KeyDel /\ EditDoc
    \/ KeyBackspace /\ EditDoc
    \/ \E k \in ArrowKeys : KeyArrow(k)
    \/ \E k \in {97, 32} : KeyChar(k) /\ EditDoc

SpecExtType == InitExt /\ [][NextExtType]_vars

-----------------------------------------------------------------------------
(* SpecEdit: both variants, from any document and any in-bounds cursor     *)
(* (every such state is reached by opening a file and moving the cursor),  *)
(* under the editing keys: characters, Enter, Backspace, Del.              *)

EditChars == {"a", TAB}

\* all lines of at most n characters
EditLines(n) == UNION {[1..k -> EditChars] : k \in 0..n}

RECURSIVE Docs(_, _)
\* all documents of exactly n lines and at most c characters
Docs(n, c) ==
    IF n = 0 THEN {<<>>}
    ELSE UNION {{<<l>> \o d : d \in Docs(n - 1, c - Len(l))} : l \in EditLines(c)}

\* 0 <= row < len(document) and 0 <= col <= len(document[row])
InBounds(b, x, y) == y \in 0..(Len(b) - 1) /\ x \in 0..Len(b[y + 1])

InitEdit ==
    /\ variant \in {"base", "ext"}
    /\ status = "running"
    /\ key = 0
    /\ buffer \in UNION {Docs(n, MaxChars) : n \in 1..MaxLines}
    /\ cmdbuffer = <<>>
    /\ cmdmode = FALSE
    /\ navmode = FALSE
    /\ bufcur_y \in 0..(MaxLines - 1)
    /\ bufcur_x \in 0..MaxChars
    /\ InBounds(buffer, bufcur_x, bufcur_y)
    /\ bufofs_x = 0
    /\ bufofs_y = 0
    /\ win_w = 2
    /\ win_h = MaxLines + 1
    /\ tabsz = InitTabsz(variant)
    /\ NoMapper

NextEdit ==
    \/ KeyEnter /\ EditDoc
    \/ KeyDel /\ EditDoc
    \/ KeyBackspace /\ EditDoc
    \/ KeyChar(97) /\ EditDoc
    \/ RenderFault

SpecEdit == InitEdit /\ [][NextEdit]_vars

-----------------------------------------------------------------------------
(* SpecVert: the extended variant on a two-line document, cursor on the    *)
(* first line at a visual column that the second line also has; the down   *)
(* arrow and then the up arrow.  trail records the cursor before each key. *)

\* longest line of the vertical-move specification
MaxVertLen == 3

InitVert ==
    /\ variant = "ext"
    /\ status = "running"
    /\ key = 0
    /\ buffer \in [1..2 -> LinesUpTo(MaxVertLen)]
    /\ cmdbuffer = <<>>
    /\ cmdmode = FALSE
    /\ navmode = FALSE
    /\ bufcur_y = 0
    /\ bufcur_x \in 0..Len(buffer[1])
    /\ bufofs_x = 0
    /\ bufofs_y = 0
    /\ win_w = 80
    /\ win_h = 24
    /\ tabsz \in 1..MaxTab
    /\ \E p \in 0..Len(buffer[2]) :
          VisCol(buffer[2], tabsz, p) = VisCol(buffer[1], tabsz, bufcur_x)
    /\ text = <<>>
    /\ calls = <<>>
    /\ trail = <<>>

Step(k) ==
    /\ PressCore(k)
    /\ trail' = Append(trail, [x |-> bufcur_x, y |-> bufcur_y])

VertDown == trail = <<>> /\ Step(KEY_DOWN)

VertUp == Len(trail) = 1 /\ Step(KEY_UP)

NextVert == VertDown \/ VertUp

SpecVert == InitVert /\ [][NextVert]_vars

-----------------------------------------------------------------------------
(* SpecUndo: both variants, from any document and any in-bounds cursor     *)
(* outside command mode; Enter and then Backspace.  trail records the      *)
(* document and the cursor before each of the two keys.                    *)

\* the line of the example: "hello" typed into the initial buffer
Hello == <<"h", "e", "l", "l", "o">>

InitUndo ==
    /\ variant \in {"base", "ext"}
    /\ status = "running"
    /\ key = 0
    /\ buffer \in UNION {Docs(n, MaxChars) : n \in 1..MaxLines} \cup {<<Hello>>}
    /\ cmdbuffer = <<>>
    /\ cmdmode = FALSE
    /\ navmode \in (IF variant = "base" THEN BOOLEAN ELSE {FALSE})
    /\ bufcur_y \in 0..(Len(buffer) - 1)
    /\ bufcur_x \in 0..Len(buffer[bufcur_y + 1])
    /\ bufofs_x = 0
    /\ bufofs_y = 0
    /\ win_w = 2
    /\ win_h = MaxLines + 2
    /\ tabsz = InitTabsz(variant)
    /\ NoMapper

\* one call of mainloop with getch returning k, the state before it recorded
StepDoc(k) ==
    /\ PressCore(k)
    /\ trail' = Append(trail, [x |-> bufcur_x, y |-> bufcur_y, buffer |-> buffer,
                               ofs_x |-> bufofs_x, ofs_y |-> bufofs_y])

UndoEnter == trail = <<>> /\ StepDoc(KEY_ENTER)

UndoBackspace == Len(trail) = 1 /\ StepDoc(KEY_BACKSPACE)

NextUndo == UndoEnter \/ UndoBackspace

SpecUndo == InitUndo /\ [][NextUndo]_vars

-----------------------------------------------------------------------------
(* SpecIns: both variants, from any document and any in-bounds cursor,     *)
(* either in typing mode or in command mode with a u-<hex> command typed   *)
(* and not yet accepted; characters typed and the command accepted.        *)

\* the u-<hex> commands of this specification
InsCommands == { <<"u", "-", "4", "1">>, <<"u", "-", "9">> }

\* the characters typed in typing mode under this specification
InsKeys == {97, 32}

InitIns ==
    /\ variant \in {"base", "ext"}
    /\ status = "running"
    /\ key = 0
    /\ buffer \in UNION {Docs(n, MaxChars) : n \in 1..MaxLines}
    /\ cmdmode \in BOOLEAN
    /\ cmdbuffer \in (IF cmdmode THEN InsCommands ELSE {<<>>})
    /\ navmode = FALSE
    /\ bufcur_y \in 0..(Len(buffer) - 1)
    /\ bufcur_x \in 0..Len(buffer[bufcur_y + 1])
    /\ bufofs_x = 0
    /\ bufofs_y = 0
    /\ win_w = 2
    /\ win_h = MaxLines + 1
    /\ tabsz = InitTabsz(variant)
    /\ NoMapper

\* Enter in command mode: the command in the command buffer is accepted
AcceptCmd == cmdmode /\ Press(KEY_ENTER)

NextIns ==
    \/ \E k \in InsKeys : KeyChar(k) /\ EditDoc
    \/ AcceptCmd /\ EditDoc

SpecIns == InitIns /\ [][NextIns]_vars

-----------------------------------------------------------------------------
(* SpecCmd: both variants in command mode with a command typed and not yet *)
(* accepted, over any small document, in-bounds cursor, viewport row       *)
(* inside the document and window height; the command is accepted.         *)

\* most characters in a document of this specification
CmdMaxChars == 1

TabszPrefix == <<"t", "a", "b", "s", "z", SPC>>
GotoPrefix == <<"g", SPC>>
UniPrefix == <<"u", "-">>

\* numeric arguments as typed (ds) and the integer they denote (n)
NumArgs ==
    { [ds |-> <<"0">>, n |-> 0], [ds |-> <<"1">>, n |-> 1], [ds |-> <<"2">>, n |-> 2],
      [ds |-> <<"5">>, n |-> 5], [ds |-> <<"-", "1">>, n |-> -1],
      [ds |-> <<"2", "5", "5">>, n |-> 255], [ds |-> <<"2", "5", "6">>, n |-> 256] }

\* arguments that are no number
BadArgs == { <<"z">>, <<>>, <<"9", "z">> }

\* commands with an argument that cannot be parsed
Malformed(v) ==
    {UniPrefix \o a : a \in BadArgs} \cup {TabszPrefix \o a : a \in BadArgs}
        \cup (IF v = "ext" THEN {GotoPrefix \o a : a \in BadArgs} ELSE {})

PageCommands == { <<"p", "u">>, <<"p", "d">> }

\* the commands accepted under this specification
CmdInputs(v) ==
    Malformed(v) \cup {TabszPrefix \o a.ds : a \in NumArgs}
        \cup (IF v = "ext" THEN {GotoPrefix \o a.ds : a \in NumArgs} \cup PageCommands
              ELSE {})

InitCmd ==
    /\ variant \in {"base", "ext"}
    /\ status = "running"
    /\ key = 0
    /\ buffer \in UNION {Docs(n, CmdMaxChars) : n \in 1..MaxLines}
    /\ cmdmode = TRUE
    /\ cmdbuffer \in CmdInputs(variant)
    /\ navmode = FALSE
    /\ bufcur_y \in 0..(Len(buffer) - 1)
    /\ bufcur_x \in 0..Len(buffer[bufcur_y + 1])
    /\ bufofs_x = 0
    /\ bufofs_y \in 0..(Len(buffer) - 1)
    /\ win_w = 2
    /\ win_h \in 2..(MaxLines + 1)
    /\ tabsz = InitTabsz(variant)
    /\ NoMapper

\* Backspace in command mode
CmdBackspace == cmdmode /\ Press(KEY_BACKSPACE)

\* Esc in command mode (the extended variant tests for the key)
CmdEsc == cmdmode /\ KeyEsc

NextCmd == AcceptCmd \/ CmdBackspace \/ CmdEsc

SpecCmd == InitCmd /\ [][NextCmd]_vars

-----------------------------------------------------------------------------
(* SpecNav: the base variant from any document and in-bounds cursor; the   *)
(* n command typed and accepted, and the arrow keys.  (do_move_nav, which  *)
(* would move the viewport, is called from nowhere in the base variant.)   *)

\* most characters in a document of this specification
NavMaxChars == 2

InitNav ==
    /\ variant = "base"
    /\ status = "running"
    /\ key = 0
    /\ buffer \in UNION {Docs(n, NavMaxChars) : n \in 1..MaxLines}
    /\ cmdmode = FALSE
    /\ cmdbuffer = <<>>
    /\ navmode = FALSE
    /\ bufcur_y \in 0..(Len(buffer) - 1)
    /\ bufcur_x \in 0..Len(buffer[bufcur_y + 1])
    /\ bufofs_x = 0
    /\ bufofs_y = 0
    /\ win_w = 2
    /\ win_h = MaxLines + 1
    /\ tabsz = InitTabsz(variant)
    /\ NoMapper

NextNav ==
    \/ ~cmdmode /\ KeyTab
    \/ KeyCmdChar(110)
    \/ AcceptCmd
    \/ \E k \in ArrowKeys : KeyArrow(k)

SpecNav == InitNav /\ [][NextNav]_vars

-----------------------------------------------------------------------------
(* decor_syntax and the marker loop of render (extended variant).  A line  *)
(* is a sequence of characters; a marker is the character SUB (\032)       *)
(* followed by the character whose code is the colour group.  The lines of *)
(* this model are over SynChars: no quote, no backslash, no parenthesis,   *)
(* no digit but 1, no letter that ends a number.                           *)

SynLetters == {"a", "i", "n", "t", "x"}
SynDigits == {"1"}
SynChars == SynLetters \cup SynDigits \cup {"/", "*", SPC, "=", ";"}

\* \032, the character that opens a marker
SUB == "SUB"

\* the characters with codes 1..26, by code; the last one is \032 itself
GroupNames ==
    <<"g1", "g2", "g3", "g4", "g5", "g6", "g7", "g8", "g9", "g10", "g11", "g12", "g13",
      "g14", "g15", "g16", "g17", "g18", "g19", "g20", "g21", "g22", "g23", "g24",
      "g25", SUB>>

\* the marker of group n
Mark(n) == <<SUB, GroupNames[n]>>

\* int.from_bytes(bytes(c, 'utf-8'), 'little'): the code of the character,
\* 1..26 for the characters above and the code point for a visible one
GroupOf(c) ==
    IF \E n \in 1..Len(GroupNames) : GroupNames[n] = c
    THEN CHOOSE n \in 1..Len(GroupNames) : GroupNames[n] = c
    ELSE Ord(c)

\* \w: the characters of a word
IsWordChar(c) == c \in SynLetters \cup SynDigits

\* \s: the blank and the marker characters \t, \n and \013
IsSpaceChar(c) == c \in {SPC, "g9", "g10", "g11"}

\* the pattern pat matches at index i (from 1)
MatchAt(line, i, pat) ==
    i + Len(pat) - 1 <= Len(line) /\ SubSeq(line, i, i + Len(pat) - 1) = pat

RECURSIVE SubAlt(_, _, _, _, _)
\* re.sub of an alternation of literal patterns (pats, in the order tried):
\* every leftmost match, from index i on, is put between pre and post
SubAlt(line, i, pats, pre, post) ==
    IF i > Len(line) THEN <<>>
    ELSE LET hits == {k \in 1..Len(pats) : MatchAt(line, i, pats[k])}
         IN  IF hits = {}
             THEN <<line[i]>> \o SubAlt(line, i + 1, pats, pre, post)
             ELSE LET pat == pats[CHOOSE k \in hits : \A h \in hits : k <= h]
                  IN  pre \o pat \o post \o SubAlt(line, i + Len(pat), pats, pre, post)

RECURSIVE WordEnd(_, _)
\* the index of the last character of the word that starts at i
WordEnd(line, i) ==
    IF i < Len(line) /\ IsWordChar(line[i + 1]) THEN WordEnd(line, i + 1) ELSE i

expr_keyword ==
    { <<"b", "r", "e", "a", "k">>, <<"c", "a", "s", "e">>,
      <<"c", "o", "n", "t", "i", "n", "u", "e">>, <<"d", "e", "f", "a", "u", "l", "t">>,
      <<"d", "o">>, <<"e", "l", "s", "e">>, <<"e", "n", "u", "m">>, <<"f", "o", "r">>,
      <<"g", "o", "t", "o">>, <<"i", "f">>, <<"r", "e", "t", "u", "r", "n">>,
      <<"s", "i", "z", "e", "o", "f">>, <<"s", "t", "r", "u", "c", "t">>,
      <<"s", "w", "i", "t", "c", "h">>, <<"t", "y", "p", "e", "d", "e", "f">>,
      <<"w", "h", "i", "l", "e">>, <<"u", "n", "i", "o", "n">> }

expr_type ==
    { <<"c", "h", "a", "r">>, <<"c", "o", "n", "s", "t">>, <<"d", "o", "u", "b", "l", "e">>,
      <<"e", "x", "t", "e", "r", "n">>, <<"f", "l", "o", "a", "t">>,
      <<"i", "n", "l", "i", "n", "e">>, <<"i", "n", "t">>, <<"l", "o", "n", "g">>,
      <<"r", "e", "g", "i", "s", "t", "e", "r">>, <<"r", "e", "s", "t", "r", "i", "c", "t">>,
      <<"s", "h", "o", "r", "t">>, <<"s", "i", "g", "n", "e", "d">>,
      <<"s", "t", "a", "t", "i", "c">>, <<"u", "n", "s", "i", "g", "n", "e", "d">>,
      <<"v", "o", "i", "d">>, <<"v", "o", "l", "a", "t", "i", "l", "e">> }

\* expr_numeric on the characters of this model: a word of digits only
IsNumeric(w) == \A i \in 1..Len(w) : w[i] \in SynDigits

\* does the word w match the expression of this kind between two \b
Qualifies(kind, w) ==
    CASE kind = "keyword" -> w \in expr_keyword
      [] kind = "type" -> w \in expr_type
      [] kind = "numeric" -> IsNumeric(w)

RECURSIVE SubWords(_, _, _, _)
\* re.sub of \b(...)\b: every whole word, from index i on, that matches the
\* expression of this kind is put between the marker of group grp and \032\032
SubWords(line, i, kind, grp) ==
    IF i > Len(line) THEN <<>>
    ELSE IF ~IsWordChar(line[i])
    THEN <<line[i]>> \o SubWords(line, i + 1, kind, grp)
    ELSE LET j == WordEnd(line, i)
             w == SubSeq(line, i, j)
         IN  (IF Qualifies(kind, w) THEN Mark(grp) \o w \o Mark(26) ELSE w)
                 \o SubWords(line, j + 1, kind, grp)

RECURSIVE SkipSpace(_, _)
\* the first index from i on that holds no \s character
SkipSpace(line, i) ==
    IF i <= Len(line) /\ IsSpaceChar(line[i]) THEN SkipSpace(line, i + 1) ELSE i

RECURSIVE SubFunction(_, _)
\* re.sub of expr_function: a word that starts with a letter and is followed,
\* after any \s characters, by an opening parenthesis
SubFunction(line, i) ==
    IF i > Len(line) THEN <<>>
    ELSE IF ~IsWordChar(line[i])
    THEN <<line[i]>> \o SubFunction(line, i + 1)
    ELSE LET j == WordEnd(line, i)
             w == SubSeq(line, i, j)
             k == SkipSpace(line, j + 1)
         IN  (IF line[i] \in SynLetters /\ k <= Len(line) /\ line[k] = "("
              THEN Mark(4) \o w \o Mark(26) ELSE w)
                 \o SubFunction(line, j + 1)

\* expr_string and expr_char match only where there is a quote
NoQuote(line) == \A i \in 1..Len(line) : line[i] \notin {"\"", "'"}

\* the alternatives of expr_symbol that the characters of this model can match
expr_symbol == << <<"*", "=">>, <<"*">>, <<"/", "=">>, <<"/">>, <<"=", "=">>, <<"=">>, <<";">> >>

expr_constants ==
    << <<"N", "U", "L", "L">>, <<"T", "R", "U", "E">>, <<"F", "A", "L", "S", "E">>,
       <<"t", "r", "u", "e">>, <<"f", "a", "l", "s", "e">> >>

\* decor_syntax(line): the ten substitutions in the order of the code
decor_syntax(line) ==
    LET l1 == SubAlt(line, 1, << <<"/", "*">> >>, Mark(10), <<>>)
        l2 == SubAlt(l1, 1, << <<"*", "/">> >>, <<>>, Mark(25))
        l4 == CASE NoQuote(l2) -> l2
        l5 == SubAlt(l4, 1, expr_symbol, Mark(11), Mark(26))
        l6 == SubWords(l5, 1, "numeric", 8)
        l7 == SubWords(l6, 1, "keyword", 3)
        l8 == SubWords(l7, 1, "type", 5)
        l9 == SubAlt(l8, 1, expr_constants, Mark(9), Mark(26))
    IN  SubFunction(l9, 1)

RECURSIVE MarkerLoopKeepOn(_, _, _, _, _)
\* the marker loop without the exclusive groups: every marker switches
MarkerLoopKeepOn(coltext, j, exclusive, activgrp, out) ==
    IF j > Len(coltext) THEN [out |-> out, exclusive |-> exclusive]
    ELSE IF j + 1 <= Len(coltext) /\ coltext[j] = SUB
    THEN LET grp == GroupOf(coltext[j + 1])
         IN  IF grp = 26 /\ activgrp > 0
             THEN MarkerLoopKeepOn(coltext, j + 2, exclusive, 0, out)
             ELSE IF grp = 25
             THEN MarkerLoopKeepOn(coltext, j + 2, FALSE, 0, out)
             ELSE MarkerLoopKeepOn(coltext, j + 2, exclusive, grp, out)
    ELSE MarkerLoopKeepOn(coltext, j + 1, exclusive, activgrp,
                          Append(out, [ch |-> coltext[j], grp |-> activgrp]))

\* the body of the loop with the generic close code (SUB SUB) ending any
\* group, an exclusive one included
MarkerStepCloseAny(coltext, m) ==
    IF m.j + 1 < Len(coltext) /\ PyGet(coltext, m.j) = SUB
    THEN LET grp == GroupOf(PyGet(coltext, m.j + 1))
         IN  IF grp = 26 /\ m.activgrp > 0
             THEN [m EXCEPT !.exclusive = FALSE, !.activgrp = 0, !.j = @ + 2]
             ELSE IF grp = 25
             THEN [m EXCEPT !.exclusive = FALSE, !.activgrp = 0, !.j = @ + 2]
             ELSE IF ~m.exclusive
             THEN [m EXCEPT !.exclusive = (grp = 10 \/ grp = 6), !.activgrp = grp,
                            !.j = @ + 2]
             ELSE [m EXCEPT !.j = @ + 2]
    ELSE [m EXCEPT !.out = Append(@, [ch |-> PyGet(coltext, m.j), grp |-> m.activgrp]),
                   !.j = @ + 1]

\* the body of the inner while loop of render, one iteration: m holds the
\* locals j (from 0), exclusive and activgrp, and out, every character drawn
\* so far on the line with the colour group that was active (0 is the
\* default colour)
MarkerStep(coltext, m) ==
    IF m.j + 1 < Len(coltext) /\ PyGet(coltext, m.j) = SUB
    THEN LET grp == GroupOf(PyGet(coltext, m.j + 1))
         IN  IF ~m.exclusive /\ grp = 26 /\ m.activgrp > 0
             THEN [m EXCEPT !.activgrp = 0, !.j = @ + 2]
             ELSE IF grp = 25
             THEN [m EXCEPT !.exclusive = FALSE, !.activgrp = 0, !.j = @ + 2]
             ELSE IF ~m.exclusive
             THEN [m EXCEPT !.exclusive = (grp = 10 \/ grp = 6), !.activgrp = grp,
                            !.j = @ + 2]
             ELSE [m EXCEPT !.j = @ + 2]
    ELSE [m EXCEPT !.out = Append(@, [ch |-> PyGet(coltext, m.j), grp |-> m.activgrp]),
                   !.j = @ + 1]

RECURSIVE MarkerLoop(_, _, _, _, _)
\* the inner while loop of render over one decorated line, from index j
\* (from 1): the characters drawn, and exclusive as it is carried on to the
\* next line
MarkerLoop(coltext, j, exclusive, activgrp, out) ==
    IF j > Len(coltext) THEN [out |-> out, exclusive |-> exclusive]
    ELSE LET m == MarkerStep(coltext, [j |-> j - 1, exclusive |-> exclusive,
                                       activgrp |-> activgrp, out |-> out])
         IN  MarkerLoop(coltext, m.j + 1, m.exclusive, m.activgrp, m.out)

-----------------------------------------------------------------------------
(* SpecSyntax: decor_syntax applied to a line, and then the marker loop of *)
(* render applied to what it returned.                                     *)

\* longest line handed to decor_syntax, the example apart
MaxSynLen == 3

\* the line of the example: /* a */ int x = 1;
SynExample ==
    <<"/", "*", SPC, "a", SPC, "*", "/", SPC, "i", "n", "t", SPC, "x", SPC, "=", SPC,
      "1", ";">>

InitSyntax ==
    /\ StateInit("ext")
    /\ win_w = 2 /\ win_h = 2
    /\ tabsz = InitTabsz("ext")
    /\ text \in UNION {[1..k -> SynChars] : k \in 0..MaxSynLen} \cup {SynExample}
    /\ calls = <<>>
    /\ trail = <<>>

\* coltext = decor_syntax(text)
CallDecorSyntax ==
    /\ calls = <<>>
    /\ calls' = <<[fn |-> "decor_syntax", offs |-> 0, ret |-> decor_syntax(text)]>>
    /\ UNCHANGED <<edvars, tabsz, text, trail>>

\* render's loop over coltext, at the first line drawn (exclusive = False)
RenderMarkers ==
    /\ Len(calls) = 1
    /\ calls' = Append(calls, [fn |-> "render", offs |-> 0,
                               ret |-> MarkerLoop(calls[1].ret, 1, FALSE, 0, <<>>).out])
    /\ UNCHANGED <<edvars, tabsz, text, trail>>

NextSyntax == CallDecorSyntax \/ RenderMarkers

SpecSyntax == InitSyntax /\ [][NextSyntax]_vars

-----------------------------------------------------------------------------
(* SpecScroll: the extended variant over any small document, in-bounds     *)
(* cursor, viewport row inside the document and window height; the up and  *)
(* down arrows, two of them at most.  trail records the state before each  *)
(* key.                                                                    *)

\* most characters in a document of this specification
ScrollMaxChars == 1

InitScroll ==
    /\ variant = "ext"
    /\ status = "running"
    /\ key = 0
    /\ buffer \in UNION {Docs(n, ScrollMaxChars) : n \in 1..(MaxLines + 1)}
    /\ cmdmode = FALSE
    /\ cmdbuffer = <<>>
    /\ navmode = FALSE
    /\ bufcur_y \in 0..(Len(buffer) - 1)
    /\ bufcur_x \in 0..Len(buffer[bufcur_y + 1])
    /\ bufofs_x \in {0, 1}
    /\ bufofs_y \in 0..(Len(buffer) - 1)
    /\ win_w = 2
    /\ win_h \in 2..MaxLines
    /\ tabsz = InitTabsz(variant)
    /\ NoMapper

\* an arrow key outside command mode, the state before it recorded
ScrollStep(k) == ~cmdmode /\ Len(trail) < 2 /\ StepDoc(k)

ScrollDown == ScrollStep(KEY_DOWN)

ScrollUp == ScrollStep(KEY_UP)

NextScroll == ScrollDown \/ ScrollUp

SpecScroll == InitScroll /\ [][NextScroll]_vars

-----------------------------------------------------------------------------
(* SpecRender: the two loops of render over the lines of the window, one   *)
(* step per iteration of the inner loop.  What decor_syntax returned for   *)
(* the line (coltext) is an input: any sequence of marker characters and   *)
(* visible characters, since the file itself may hold the character \032.  *)
(* text is coltext; trail holds the locals of render before each iteration *)
(* of the inner loop over this line, the last record being the current one.*)

\* longest decorated line
MaxRenderLen == 4

\* the characters of a decorated line: \032 (which after another \032 is the
\* generic close code 26), the codes of the exclusive groups (6, 10) and of
\* the exclusive close (25), and a visible character (which after \032 is the
\* code of a plain group, 97)
RenderChars == {SUB, "g6", "g10", "g25", "a"}

RenderTexts == UNION {[1..k -> RenderChars] : k \in 0..MaxRenderLen}

InitRender ==
    /\ variant = "ext"
    /\ status = "running"
    /\ key = 0
    /\ buffer = << <<>> >>
    /\ cmdbuffer = <<>>
    /\ cmdmode = FALSE
    /\ navmode = FALSE
    /\ bufcur_x = 0
    /\ bufcur_y = 0
    /\ bufofs_x = 0
    /\ bufofs_y = 0
    /\ win_w = MaxRenderLen
    /\ win_h = 3
    /\ tabsz = InitTabsz("ext")
    /\ text \in RenderTexts
    /\ calls = <<>>
    /\ trail = <<[i |-> 0, j |-> 0, exclusive |-> FALSE, activgrp |-> 0, out |-> <<>>]>>

\* the locals of render now
RenLocals == trail[Len(trail)]

\* the test of the inner loop's if: a marker character with a code after it
AtMarker(coltext, m) == m.j + 1 < Len(coltext) /\ PyGet(coltext, m.j) = SUB

\* one iteration of the inner loop
RenderStep ==
    /\ RenLocals.j < Len(text)
    /\ trail' = Append(trail, MarkerStep(text, RenLocals))
    /\ UNCHANGED <<edvars, tabsz, text, calls>>

\* an iteration that meets a marker pair
ConsumeMarker == AtMarker(text, RenLocals) /\ RenderStep

\* an iteration that meets anything else
PaintChar == ~AtMarker(text, RenLocals) /\ RenderStep

\* the inner loop is over: the outer loop goes to the next line of the
\* window, where activgrp starts at 0 and exclusive is what it was
NextLine ==
    /\ RenLocals.j >= Len(text)
    /\ RenLocals.i + 1 < win_h - 1
    /\ text' \in RenderTexts
    /\ trail' = <<[i |-> RenLocals.i + 1, j |-> 0, exclusive |-> RenLocals.exclusive,
                   activgrp |-> 0, out |-> <<>>]>>
    /\ UNCHANGED <<edvars, tabsz, calls>>

NextRender == ConsumeMarker \/ PaintChar \/ NextLine

SpecRender == InitRender /\ [][NextRender]_vars

-----------------------------------------------------------------------------
(* The mapper specification: the two pure functions applied to bounded     *)
(* inputs.  Every call is recorded with its offset and its return value.   *)

\* the largest visual column a line of this model can reach
MaxVisual == MaxText * MaxTab

InitMapper ==
    /\ StateInit("ext")
    /\ win_w = 2 /\ win_h = 2
    /\ text \in LinesUpTo(MaxText)
    /\ tabsz \in 1..MaxTab
    /\ calls = <<>>
    /\ trail = <<>>

\* bufpos2vispos(text, tabsz, o); a behaviour holds one call and one that
\* follows it, which is what the properties of the mapper relate
CallBufpos2vispos(o) ==
    /\ Len(calls) < 2
    /\ calls' = Append(calls, [fn |-> "bufpos2vispos", offs |-> o,
                               ret |-> bufpos2vispos(text, tabsz, o)])
    /\ UNCHANGED <<edvars, tabsz, text, trail>>

\* vispos2bufpos(text, tabsz, v)
CallVispos2bufpos(v) ==
    /\ Len(calls) < 2
    /\ calls' = Append(calls, [fn |-> "vispos2bufpos", offs |-> v,
                               ret |-> vispos2bufpos(text, tabsz, v)])
    /\ UNCHANGED <<edvars, tabsz, text, trail>>

NextMapper ==
    \/ \E o \in 0..(Len(text) + MaxOver) : CallBufpos2vispos(o)
    \/ \E v \in 0..(MaxVisual + MaxOver) : CallVispos2bufpos(v)

SpecMapper == InitMapper /\ [][NextMapper]_vars

-----------------------------------------------------------------------------
(* Properties of the editor. *)

\* C1 (SpecExt): in every state the extended variant reaches by keystrokes
\* and accepted navigation commands, 0 <= row < len(document) and
\* 0 <= col <= len(document[row]).
C1_CursorInBounds ==
    status = "running" => InBounds(buffer, bufcur_x, bufcur_y)

\* C2 (SpecEdit): the document never becomes an empty sequence of lines.
C2_DocumentNeverEmpty == Len(buffer) >= 1

\* C2 witness: Backspace has removed a line and left a single one.  The line
\* holds MaxChars characters and the cursor is past its start, so the key
\* neither deleted a character (the line would have been longer than any
\* line here) nor was ignored (the cursor would be at the start).
C2_Witness ==
    /\ key = KEY_BACKSPACE /\ status = "running"
    /\ Len(buffer) = 1 /\ Len(buffer[1]) = MaxChars
    /\ bufcur_y = 0 /\ bufcur_x >= 1

\* a step in which mainloop handled key k outside command mode and returned
KeyStep(k) ==
    /\ status = "running" /\ status' = "running"
    /\ ~cmdmode /\ ~navmode
    /\ key' = k

\* C3 (SpecEdit): Enter at an in-bounds cursor (row, col) replaces line row
\* by line[:col] and line[col:], keeps every other line, and puts the
\* cursor at (row + 1, 0).
C3_EnterSplitsLine ==
    [][ (KeyStep(KEY_ENTER) /\ InBounds(buffer, bufcur_x, bufcur_y)) =>
          LET line == buffer[bufcur_y + 1]
          IN  /\ buffer' = SubSeq(buffer, 1, bufcur_y)
                             \o << SubSeq(line, 1, bufcur_x),
                                   SubSeq(line, bufcur_x + 1, Len(line)) >>
                             \o SubSeq(buffer, bufcur_y + 2, Len(buffer))
              /\ bufcur_y' = bufcur_y + 1
              /\ bufcur_x' = 0 ]_vars

\* C4 (SpecEdit): Backspace at (row, 0), row >= 1, on a non-empty line puts
\* lines[row-1] + lines[row] at index row-1, keeps every other line, and
\* moves the cursor to (row - 1, len(old lines[row-1])).
C4_BackspaceJoinsLines ==
    [][ ( /\ KeyStep(KEY_BACKSPACE)
          /\ InBounds(buffer, bufcur_x, bufcur_y)
          /\ bufcur_x = 0 /\ bufcur_y >= 1
          /\ buffer[bufcur_y + 1] # <<>> ) =>
          /\ buffer' = SubSeq(buffer, 1, bufcur_y - 1)
                         \o << buffer[bufcur_y] \o buffer[bufcur_y + 1] >>
                         \o SubSeq(buffer, bufcur_y + 2, Len(buffer))
          /\ bufcur_y' = bufcur_y - 1
          /\ bufcur_x' = Len(buffer[bufcur_y]) ]_vars

\* C5 (SpecVert): from line A at visual column v, down puts the cursor on
\* line B at the literal offset whose visual column is v, and up after it
\* puts the cursor back on A at a literal offset whose visual column is v.
C5_VerticalKeepsVisualColumn ==
    LET v == VisCol(buffer[1], tabsz, trail[1].x)
    IN  /\ Len(trail) >= 1 => status = "running"
        /\ Len(trail) = 1 =>
              /\ bufcur_y = 1
              /\ bufcur_x \in 0..Len(buffer[2])
              /\ VisCol(buffer[2], tabsz, bufcur_x) = v
        /\ Len(trail) = 2 =>
              /\ bufcur_y = 0
              /\ bufcur_x \in 0..Len(buffer[1])
              /\ VisCol(buffer[1], tabsz, bufcur_x) = v

\* C6 (SpecExtType): under typing-mode keys the viewport contains the
\* cursor: bufofs_y <= row < bufofs_y + (win_h - 1) and
\* bufofs_x <= visual column of the cursor < bufofs_x + win_w.
C6_ViewportHoldsCursor ==
    (status = "running" /\ InBounds(buffer, bufcur_x, bufcur_y)) =>
        LET vis == bufpos2vispos(buffer[bufcur_y + 1], tabsz, bufcur_x)
        IN  /\ bufofs_y <= bufcur_y /\ bufcur_y < bufofs_y + (win_h - 1)
            /\ bufofs_x <= vis /\ vis < bufofs_x + win_w

\* C11 (SpecUndo): Enter and then Backspace, from any document and in-bounds
\* cursor outside command mode, leave the sequence of lines as it was before
\* the Enter, with the editor running; from the single line "hello" with the
\* cursor at its end the cursor is back at (row 0, offset 5).
C11_EnterThenBackspace ==
    Len(trail) = 2 =>
        /\ status = "running"
        /\ buffer = trail[1].buffer
        /\ (trail[1].buffer = <<Hello>> /\ trail[1].x = 5) =>
               (bufcur_y = 0 /\ bufcur_x = 5)

\* C11 witness: the extended variant split a line in two at an inner offset
\* and Backspace joined the halves again.
C11_Witness ==
    /\ Len(trail) = 2 /\ variant = "ext"
    /\ Len(trail[1].buffer) >= 2
    /\ trail[1].x >= 1 /\ trail[1].x < Len(trail[1].buffer[trail[1].y + 1])
    /\ trail[2].buffer # trail[1].buffer
    /\ trail[2].buffer[trail[2].y + 1] # <<>>
    /\ buffer = trail[1].buffer

\* C12 (SpecEdit): the Del key of the extended variant at an in-bounds
\* cursor leaves cursor and viewport alone and changes the document in one
\* of three ways: nothing at the end of the last line, lines row and row+1
\* joined at the end of another line, the character at the cursor removed
\* otherwise.
C12_DelCases ==
    [][ (KeyStep(KEY_DEL) /\ variant = "ext" /\ InBounds(buffer, bufcur_x, bufcur_y)) =>
          LET row == bufcur_y + 1
              line == buffer[row]
          IN  /\ bufcur_x' = bufcur_x /\ bufcur_y' = bufcur_y
              /\ bufofs_x' = bufofs_x /\ bufofs_y' = bufofs_y
              /\ IF bufcur_x = Len(line) /\ row = Len(buffer)
                 THEN buffer' = buffer
                 ELSE IF bufcur_x = Len(line)
                 THEN buffer' = SubSeq(buffer, 1, row - 1)
                                  \o << line \o buffer[row + 1] >>
                                  \o SubSeq(buffer, row + 2, Len(buffer))
                 ELSE buffer' = [buffer EXCEPT ![row] =
                                    SubSeq(line, 1, bufcur_x)
                                      \o SubSeq(line, bufcur_x + 2, Len(line))] ]_vars

\* C12 witness: Del has joined two lines into the only line, which is as
\* long as the document may be, with the cursor inside it (so the key
\* neither removed a character nor was ignored).
C12_Witness ==
    /\ key = KEY_DEL /\ status = "running" /\ variant = "ext"
    /\ Len(buffer) = 1 /\ Len(buffer[1]) = MaxChars
    /\ bufcur_y = 0 /\ bufcur_x >= 1 /\ bufcur_x < MaxChars

\* the document and cursor after character c is inserted at the cursor
Inserted(c) ==
    LET row == bufcur_y + 1
        line == buffer[row]
    IN  /\ status' = "running"
        /\ buffer' = [buffer EXCEPT ![row] = SubSeq(line, 1, bufcur_x) \o <<c>>
                                               \o SubSeq(line, bufcur_x + 1, Len(line))]
        /\ bufcur_y' = bufcur_y
        /\ bufcur_x' = bufcur_x + 1

\* C13 (SpecIns): a character typed in typing mode, or given by its code
\* point to an accepted u-<hex> command (u-41 is A, u-9 the tab), at an
\* in-bounds cursor (row, col) is inserted at col of line row, every other
\* line and the number of lines stay, and the cursor goes to (row, col + 1).
C13_InsertCharacter ==
    [][ (status = "running" /\ ~RenderRaises /\ InBounds(buffer, bufcur_x, bufcur_y)) =>
          /\ \A k \in InsKeys : (~cmdmode /\ key' = k) => Inserted(Chr(k))
          /\ (cmdmode /\ cmdbuffer = <<"u", "-", "4", "1">>) =>
                 (Inserted("A") /\ ~cmdmode' /\ cmdbuffer' = <<>>)
          /\ (cmdmode /\ cmdbuffer = <<"u", "-", "9">>) =>
                 (Inserted(TAB) /\ ~cmdmode' /\ cmdbuffer' = <<>>) ]_vars

\* C13 witness: u-41 has been accepted and the character A sits just before
\* the cursor, inside a line (no document starts with an A and none is typed).
C13_Witness ==
    /\ status = "running" /\ ~cmdmode /\ key = 65
    /\ InBounds(buffer, bufcur_x, bufcur_y)
    /\ bufcur_x >= 1 /\ bufcur_x < Len(buffer[bufcur_y + 1])
    /\ buffer[bufcur_y + 1][bufcur_x] = "A"

\* document, cursor, viewport and tab width are as they were
EditorUnchanged ==
    /\ buffer' = buffer /\ tabsz' = tabsz
    /\ bufcur_x' = bufcur_x /\ bufcur_y' = bufcur_y
    /\ bufofs_x' = bufofs_x /\ bufofs_y' = bufofs_y

\* the editor is back in typing mode with an empty command buffer, running
BackToTyping == status' = "running" /\ ~cmdmode' /\ cmdbuffer' = <<>>

\* C14 (SpecCmd): accepting a command whose numeric argument cannot be
\* parsed (u-, tabsz, and g in the extended variant) changes nothing in
\* document, cursor, viewport and tab width, and leaves the editor running
\* in typing mode with an empty command buffer.
C14_MalformedDiscarded ==
    [][ (status = "running" /\ cmdmode /\ cmdbuffer \in Malformed(variant)) =>
          (EditorUnchanged /\ BackToTyping) ]_vars

\* C15 (SpecCmd): tabsz n sets the tab width to n when 1 <= n <= 255 and
\* changes nothing otherwise, so the tab width is always in 1..255; in the
\* extended variant g n moves cursor row and viewport row to n when
\* 0 <= n < len(document) and changes nothing for any other integer n.
C15_OutOfRangeIgnored ==
    /\ [](tabsz \in 1..255)
    /\ [][ \A a \in NumArgs :
             /\ (status = "running" /\ cmdmode /\ cmdbuffer = TabszPrefix \o a.ds) =>
                   /\ BackToTyping
                   /\ IF a.n >= 1 /\ a.n <= 255
                      THEN tabsz' = a.n /\ buffer' = buffer
                           /\ bufcur_x' = bufcur_x /\ bufcur_y' = bufcur_y
                           /\ bufofs_x' = bufofs_x /\ bufofs_y' = bufofs_y
                      ELSE EditorUnchanged
             /\ ( /\ status = "running" /\ cmdmode /\ variant = "ext"
                  /\ cmdbuffer = GotoPrefix \o a.ds ) =>
                   /\ BackToTyping
                   /\ IF a.n >= 0 /\ a.n < Len(buffer)
                      THEN bufcur_y' = a.n /\ bufofs_y' = a.n /\ buffer' = buffer
                           /\ tabsz' = tabsz
                      ELSE EditorUnchanged ]_vars

\* C16 (SpecCmd): in the extended variant, from an in-bounds cursor row and
\* a viewport row inside the document, pu and pd leave both rows inside the
\* document; when a page of H = win_h - 1 lines does not fit, pu puts both
\* at 0 and pd puts both at the last line index.
C16_PageClamped ==
    [][ ( /\ status = "running" /\ cmdmode /\ variant = "ext"
          /\ cmdbuffer \in PageCommands
          /\ bufcur_y \in 0..(Len(buffer) - 1) /\ bufofs_y \in 0..(Len(buffer) - 1) ) =>
          LET H == win_h - 1
              last == Len(buffer) - 1
          IN  /\ BackToTyping
              /\ bufcur_y' \in 0..last /\ bufofs_y' \in 0..last
              /\ (cmdbuffer = <<"p", "u">> /\ bufcur_y - H < 0) =>
                     (bufcur_y' = 0 /\ bufofs_y' = 0)
              /\ (cmdbuffer = <<"p", "d">> /\ bufcur_y + H > last) =>
                     (bufcur_y' = last /\ bufofs_y' = last) ]_vars

\* the key that cancels a command: Backspace in the base variant, Esc in the
\* extended one
CancelKey == IF variant = "base" THEN KEY_BACKSPACE ELSE KEY_ESC

\* C17 (SpecCmd): the cancel key pressed in command mode leaves command
\* mode, empties the command buffer and leaves document, cursor, viewport
\* and tab width as they were, whatever the command buffer held.
C17_CancelKey ==
    [][ (status = "running" /\ cmdmode /\ key' = CancelKey) =>
          (EditorUnchanged /\ BackToTyping) ]_vars

\* C17 witness: Esc has cancelled a command in the extended variant.
C17_Witness ==
    /\ variant = "ext" /\ key = KEY_ESC /\ status = "running"
    /\ ~cmdmode /\ cmdbuffer = <<>>

\* C18 (SpecCmd): in the extended variant Backspace in command mode with a
\* non-empty command buffer leaves command mode and empties the command
\* buffer, and an Enter right after it changes nothing in document, cursor,
\* viewport and tab width.
C18_BackspaceCancels ==
    [][ /\ ( /\ status = "running" /\ variant = "ext" /\ cmdmode
             /\ cmdbuffer # <<>> /\ key' = KEY_BACKSPACE ) =>
               (~cmdmode' /\ cmdbuffer' = <<>> /\ EditorUnchanged)
        /\ ( /\ status = "running" /\ variant = "ext" /\ cmdmode
             /\ key = KEY_BACKSPACE /\ key' = KEY_ENTER ) =>
               (status' = "running" /\ EditorUnchanged) ]_vars

\* C19 (SpecNav): in the base variant with navigation mode on, an arrow key
\* outside command mode leaves cursor and document as they were and keeps
\* the viewport row inside the document and the viewport column >= 0.
C19_NavMovesViewport ==
    [][ ( /\ status = "running" /\ variant = "base" /\ navmode /\ ~cmdmode
          /\ ~RenderRaises /\ key' \in ArrowKeys ) =>
          /\ status' = "running"
          /\ buffer' = buffer
          /\ bufcur_x' = bufcur_x /\ bufcur_y' = bufcur_y
          /\ bufofs_y' \in 0..(Len(buffer) - 1)
          /\ bufofs_x' >= 0 ]_vars

RECURSIVE StripMarkers(_, _)
\* the decorated line from index j on with every marker pair removed
StripMarkers(coltext, j) ==
    IF j > Len(coltext) THEN <<>>
    ELSE IF coltext[j] = SUB /\ j + 1 <= Len(coltext) THEN StripMarkers(coltext, j + 2)
    ELSE <<coltext[j]>> \o StripMarkers(coltext, j + 1)

\* C20 (SpecSyntax): for the line /* a */ int x = 1; the characters drawn
\* are the line itself, with colour group 10 on exactly "/* a */" (opened by
\* the first marker), group 5 on exactly "int", the default group on " x ",
\* and group 8 on exactly "1"; and the decorated line without its marker
\* pairs is the line.
C20_ExampleSpans ==
    (text = SynExample /\ Len(calls) = 2) =>
        LET coltext == calls[1].ret
            drawn == calls[2].ret
        IN  /\ Len(drawn) = Len(SynExample)
            /\ \A i \in 1..Len(drawn) : drawn[i].ch = SynExample[i]
            /\ SubSeq(coltext, 1, 2) = Mark(10)
            /\ \A i \in 1..7 : drawn[i].grp = 10
            /\ drawn[8].grp = 0
            /\ \A i \in 9..11 : drawn[i].grp = 5
            /\ \A i \in 12..14 : drawn[i].grp = 0
            /\ drawn[16].grp # 8 /\ drawn[17].grp = 8 /\ drawn[18].grp # 8
            /\ StripMarkers(coltext, 1) = SynExample

\* C20 witness: the example line has been decorated and drawn, its 1 in
\* group 8.
C20_Witness ==
    /\ text = SynExample /\ Len(calls) = 2
    /\ calls[2].fn = "render" /\ calls[2].ret[17] = [ch |-> "1", grp |-> 8]

\* C21 (SpecRender): at every marker pair met by the renderer nothing is
\* drawn and both characters are passed over; a pair with code 10 or 6 met
\* outside an exclusive region opens one; inside an exclusive region the
\* pair with code 25 puts the active group back to the default and ends the
\* region, and every other pair (a group code, or the generic close 26)
\* leaves the active group and the exclusive flag as they were.
C21_ExclusiveRegion ==
    \A k \in 1..(Len(trail) - 1) :
        LET a == trail[k]
            b == trail[k + 1]
        IN  AtMarker(text, a) =>
              LET grp == GroupOf(PyGet(text, a.j + 1))
              IN  /\ b.out = a.out /\ b.j = a.j + 2
                  /\ (~a.exclusive /\ grp \in {10, 6}) =>
                         (b.exclusive /\ b.activgrp = grp)
                  /\ (a.exclusive /\ grp = 25) => (~b.exclusive /\ b.activgrp = 0)
                  /\ (a.exclusive /\ grp # 25) =>
                         (b.exclusive /\ b.activgrp = a.activgrp)

\* C21 witness: the line is the comment marker followed by the generic
\* close; both pairs are consumed, nothing is drawn, and the comment group
\* is still active and exclusive.
C21_Witness ==
    /\ text = Mark(10) \o Mark(26)
    /\ Len(trail) = 3
    /\ trail[2].exclusive /\ trail[2].activgrp = 10
    /\ RenLocals = [i |-> 0, j |-> 4, exclusive |-> TRUE, activgrp |-> 10, out |-> <<>>]

\* the keys of the four edit operations: a character, Enter, Backspace, Del
EditKeys == {97, KEY_ENTER, KEY_BACKSPACE, KEY_DEL}

\* C22 (SpecEdit): in the extended variant, outside command mode, from a
\* document of at least one line and a cursor with 0 <= row < len(document)
\* and 0 <= col <= len(document[row]), a typed character, Enter, Backspace
\* or Del leaves the editor running with at least one line and the cursor
\* again within 0 <= row < len(document) and 0 <= col <= len(document[row]).
C22_EditsKeepCursorInBounds ==
    [][ ( /\ status = "running" /\ variant = "ext" /\ ~cmdmode
          /\ Len(buffer) >= 1 /\ InBounds(buffer, bufcur_x, bufcur_y)
          /\ key' \in EditKeys ) =>
          /\ status' = "running"
          /\ Len(buffer') >= 1
          /\ InBounds(buffer', bufcur_x', bufcur_y') ]_vars

\* C22 witness: in the extended variant Backspace has acted below the first
\* line (where it is never ignored) and left the cursor at the very end of
\* a non-empty line, the largest column that is in bounds.
C22_Witness ==
    /\ variant = "ext" /\ key = KEY_BACKSPACE /\ status = "running"
    /\ bufcur_y >= 1 /\ bufcur_y < Len(buffer)
    /\ bufcur_x >= 1 /\ bufcur_x = Len(buffer[bufcur_y + 1])

\* row r lies in the window of H rows whose first row is o
InWindow(r, o, H) == o <= r /\ r < o + H

\* C23 (SpecScroll): in the extended variant, with the cursor row inside
\* [viewportRow, viewportRow + H), H = win_h - 1, an up or down arrow
\* changes viewportRow by one at most and never against the move, changes
\* it exactly when the new cursor row lies outside the old window, leaves
\* viewportCol as it was, and leaves the cursor row inside the new window.
C23_SingleStepScroll ==
    [][ ( /\ status = "running" /\ variant = "ext" /\ ~cmdmode
          /\ InWindow(bufcur_y, bufofs_y, win_h - 1)
          /\ key' \in {KEY_UP, KEY_DOWN} ) =>
          LET H == win_h - 1
              d == bufofs_y' - bufofs_y
          IN  /\ status' = "running"
              /\ bufofs_x' = bufofs_x
              /\ d \in {-1, 0, 1}
              /\ key' = KEY_DOWN => d >= 0
              /\ key' = KEY_UP => d <= 0
              /\ (d # 0) <=> ~InWindow(bufcur_y', bufofs_y, H)
              /\ InWindow(bufcur_y', bufofs_y', H) ]_vars

\* C23 witness: from a cursor on the last row of a window of two rows, the
\* down arrow has moved the cursor one row and the viewport one row.
C23_Witness ==
    /\ Len(trail) >= 1 /\ key = KEY_DOWN /\ status = "running" /\ win_h = 3
    /\ LET before == trail[Len(trail)]
       IN  /\ before.y = before.ofs_y + 1
           /\ bufcur_y = before.y + 1
           /\ bufofs_y = before.ofs_y + 1

\* C24 (SpecExt): in every state reached by keystrokes the command buffer
\* is empty whenever the editor is not in command mode.
C24_NoPendingCommand == ~cmdmode => cmdbuffer = <<>>

\* C25 (SpecExt): in the extended variant a key pressed in command mode,
\* other than Enter, leaves document, cursor and viewport as they were.
C25_CommandModeFrame ==
    [][ (status = "running" /\ variant = "ext" /\ cmdmode /\ key' # KEY_ENTER) =>
          /\ buffer' = buffer
          /\ bufcur_x' = bufcur_x /\ bufcur_y' = bufcur_y
          /\ bufofs_x' = bufofs_x /\ bufofs_y' = bufofs_y ]_vars

-----------------------------------------------------------------------------
(* Properties of the coordinate mapper, checked under SpecMapper. *)

IsB2V(c) == c.fn = "bufpos2vispos"
IsV2B(c) == c.fn = "vispos2bufpos"

\* C7: for an offset o in 0..len(L), bufpos2vispos returns the number of
\* non-tab characters before o plus t times the number of tabs before o, and
\* so is non-decreasing in o.
C7_LiteralToVisual ==
    /\ \A i \in 1..Len(calls) :
          IsB2V(calls[i]) /\ calls[i].offs <= Len(text)
              => calls[i].ret = VisCol(text, tabsz, calls[i].offs)
    /\ \A i, j \in 1..Len(calls) :
          /\ IsB2V(calls[i]) /\ IsB2V(calls[j])
          /\ calls[i].offs <= calls[j].offs /\ calls[j].offs <= Len(text)
          => calls[i].ret <= calls[j].ret

\* C7 witness: tab size 3 and the line TAB + three letters: offset 1 gave 3
\* and offset 4 gave 6.
C7_Witness ==
    /\ text = <<TAB, "a", "a", "a">> /\ tabsz = 3
    /\ Len(calls) = 2
    /\ calls[1] = [fn |-> "bufpos2vispos", offs |-> 1, ret |-> 3]
    /\ calls[2] = [fn |-> "bufpos2vispos", offs |-> 4, ret |-> 6]

\* C8: for an offset past the end of the line, bufpos2vispos returns the
\* visual width of the whole line.
C8_ClampToVisualWidth ==
    \A i \in 1..Len(calls) :
        IsB2V(calls[i]) /\ calls[i].offs > Len(text)
            => calls[i].ret = VisCol(text, tabsz, Len(text))

\* C9: vispos2bufpos applied to the result of bufpos2vispos at an offset o
\* in 0..len(L) gives back o.
C9_RoundTrip ==
    \A i \in 1..(Len(calls) - 1) :
        /\ IsB2V(calls[i]) /\ calls[i].offs <= Len(text)
        /\ IsV2B(calls[i + 1]) /\ calls[i + 1].offs = calls[i].ret
        => calls[i + 1].ret = calls[i].offs

\* C10: vispos2bufpos returns an offset in 0..len(L): the offset p whose
\* visual column is v, the offset just after the tab whose expansion holds v,
\* and len(L) when v lies beyond the line's visual width.
C10_VisualToLiteral ==
    \A i \in 1..Len(calls) :
        IsV2B(calls[i]) =>
            LET v == calls[i].offs
                r == calls[i].ret
            IN  /\ r \in 0..Len(text)
                /\ \A p \in 0..Len(text) : VisCol(text, tabsz, p) = v => r = p
                /\ \A p \in 1..Len(text) :
                      /\ text[p] = TAB
                      /\ VisCol(text, tabsz, p - 1) < v
                      /\ v < VisCol(text, tabsz, p)
                      => r = p
                /\ v > VisCol(text, tabsz, Len(text)) => r = Len(text)

====
